---- MODULE Spec2Model ----
(***************************************************************************)
(* Anaemia prediction form (src/app.py).                                   *)
(*                                                                         *)
(* The page is a script that is executed top to bottom on every            *)
(* interaction ("run").  A run reads the widgets, resolves the location,   *)
(* and, when the predict button was pressed, loads the classifier, calls   *)
(* it, builds the tip list, renders the result, assembles the report and   *)
(* shows the map.  The model follows one session: a sequence of runs.      *)
(*                                                                         *)
(* Number representation.  The float inputs are kept in fixed point with   *)
(* one decimal digit (450 is 45.0); a class probability is kept in         *)
(* thousandths (820 is 0.82).  An optional value is <<>> (Python's None or *)
(* "nothing rendered") or <<v>>.                                           *)
(***************************************************************************)
EXTENDS Integers, Sequences, FiniteSets, TLC

VARIABLES
    pc,             \* position of the run in the script
    sex, red_pixel, green_pixel, blue_pixel, hb,   \* widget values
    location_mode, location_text, predict_btn,     \* widget values
    latitude, longitude,                           \* optional coordinates
    geo,            \* what the location branch did in this run
    warnings,       \* st.warning elements of this run, in order
    clf,            \* optional loaded classifier
    prediction,     \* optional result of clf.predict
    proba,          \* optional result of clf.predict_proba
    confidence,     \* optional confidence
    tips, learn_more,
    feedback,       \* optional rendered label and confidence
    tips_html,      \* optional rendered tip section
    report,         \* lines written to the report buffer
    download,       \* optional data of the download button
    map_df,         \* optional point shown on the map
    failure,        \* the classifier call that raised in this run, or ""
    earlier         \* history: optional record of an earlier completed submission

inputVars == <<sex, red_pixel, green_pixel, blue_pixel, hb, location_mode,
               location_text, predict_btn>>
locVars == <<latitude, longitude, geo, warnings>>
clfVars == <<clf, prediction, proba, confidence, failure>>
outVars == <<tips, learn_more, feedback, tips_html, report, download, map_df>>
vars == <<pc, inputVars, locVars, clfVars, outVars, earlier>>

None == <<>>
Some(v) == <<v>>

\* The float n.0 in the fixed-point representation.
Float(n) == n * 10

\* ------------------------------------------------------------ constants
HbLimit == 12
GreenLimit == 40

IronTip == "Increase iron-rich foods (spinach, beans, red meat)."
HydrationTip == "Stay hydrated; high green pixel may indicate plasma presence."
DoctorTip == "Consult your doctor for supplements if needed."
CheckupsTip == "Get regular checkups."
DietTip == "Maintain a balanced diet."
ExerciseTip == "Exercise regularly."
SleepTip == "Get enough sleep."
HealthCheckupsTip == "Have regular health checkups."
WhoLink == "[Learn more about anaemia (WHO)](https://www.who.int/news-room/fact-sheets/detail/anaemia)"
MayoLink == "[General health tips (Mayo Clinic)](https://www.mayoclinic.org/healthy-lifestyle)"

NotFoundWarning == "Could not find the location. Please check your input."
GeocodingErrorWarning == "Geocoding error"

\* ------------------------------------------------------------ input sets
\* How far, in tenths, the sampled inputs reach on each side of a threshold.
Spread == 1

SexValues == {"M", "F"}
\* The values around the threshold and the two ends of the widget's range.
HbValues ==
    ((Float(HbLimit) - Spread) .. (Float(HbLimit) + Spread)) \cup {0, 250}
GreenValues ==
    ((Float(GreenLimit) - Spread) .. (Float(GreenLimit) + Spread)) \cup {0, 1000}
\* (red, blue) pairs: the widget defaults and the two ends of the range.
RedBlueValues == {<<450, 250>>, <<0, 1000>>}
LocationModes == {"Country/City", "Latitude/Longitude"}
LocationTexts == {"", "Nairobi, Kenya"}
\* Coordinates in whole degrees within [-90,90] x [-180,180].
EnteredCoordinates == {<<0, 0>>, <<-1, 37>>}
GeocodedCoordinates == {<<-1, 37>>}
\* Probability distributions over {0,1}, in thousandths.
Distributions == {<<180, 820>>, <<900, 100>>}

\* ------------------------------------------------------------ start
\* The first run of a session is about to read the widgets; the defaults are
\* those of lines 105-111.
Init ==
    /\ pc = "widgets"
    /\ sex = "M" /\ red_pixel = 450 /\ green_pixel = 300 /\ blue_pixel = 250
    /\ hb = 100
    /\ location_mode = "Country/City" /\ location_text = ""
    /\ predict_btn = FALSE
    /\ latitude = None /\ longitude = None /\ geo = "none" /\ warnings = <<>>
    /\ clf = None /\ prediction = None /\ proba = None /\ confidence = None
    /\ failure = ""
    /\ tips = <<>> /\ learn_more = "" /\ feedback = None /\ tips_html = None
    /\ report = <<>> /\ download = None /\ map_df = None
    /\ earlier = None

\* ------------------------------------------------------------ history
\* The inputs of the current submission and what the classifier returned.
Key ==
    [sex |-> sex, red |-> red_pixel, green |-> green_pixel, blue |-> blue_pixel,
     hb |-> hb, prediction |-> prediction, proba |-> proba]

\* What the current submission produced.
Result ==
    [feedback |-> feedback, confidence |-> confidence, tips |-> tips,
     learn_more |-> learn_more, tips_html |-> tips_html, report |-> report,
     download |-> download]

Completed == pc = "done" /\ predict_btn

\* The submissions the history may keep: one with both threshold tips and one
\* with neither.
Remembered ==
    /\ Completed
    /\ sex = "F" /\ red_pixel = 450
    /\ \/ hb = Float(HbLimit) - 1 /\ green_pixel = Float(GreenLimit) + 1
       \/ hb = Float(HbLimit) /\ green_pixel = Float(GreenLimit)

\* The script starts again after a run ended: nothing of the previous run's
\* namespace or page survives.  The history may keep the submission that just
\* completed.
Rerun ==
    /\ pc \in {"done", "crashed"}
    /\ sex' = "M" /\ red_pixel' = 450 /\ green_pixel' = 300 /\ blue_pixel' = 250
    /\ hb' = 100
    /\ location_mode' = "Country/City" /\ location_text' = ""
    /\ predict_btn' = FALSE
    /\ latitude' = None /\ longitude' = None /\ geo' = "none" /\ warnings' = <<>>
    /\ clf' = None /\ prediction' = None /\ proba' = None /\ confidence' = None
    /\ failure' = ""
    /\ tips' = <<>> /\ learn_more' = "" /\ feedback' = None /\ tips_html' = None
    /\ report' = <<>> /\ download' = None /\ map_df' = None
    /\ pc' = "widgets"
    /\ \/ earlier' = earlier
       \/ Remembered /\ earlier' = Some([key |-> Key, result |-> Result])

\* ------------------------------------------------------------ inputs
\* Lines 105-118 and 154: the widgets return their current values; the
\* coordinates and the location text are cleared.
ReadWidgets ==
    /\ pc = "widgets"
    /\ sex' \in SexValues
    /\ hb' \in HbValues
    /\ green_pixel' \in GreenValues
    /\ \E rb \in RedBlueValues : red_pixel' = rb[1] /\ blue_pixel' = rb[2]
    /\ location_mode' \in LocationModes
    /\ predict_btn' \in BOOLEAN
    /\ location_text' = ""
    /\ latitude' = None /\ longitude' = None
    /\ pc' = "location"
    /\ UNCHANGED <<geo, warnings, clfVars, outVars, earlier>>

\* ------------------------------------------------------------ location
\* Lines 119-121: Country/City mode; the text box returns its text; an empty
\* text skips the lookup.
EnterLocationText ==
    /\ pc = "location"
    /\ location_mode = "Country/City"
    /\ \E t \in LocationTexts :
        /\ location_text' = t
        /\ pc' = IF t # "" THEN "geocode" ELSE "summary"
    /\ UNCHANGED <<sex, red_pixel, green_pixel, blue_pixel, hb, location_mode,
                   predict_btn, locVars, clfVars, outVars, earlier>>

\* Lines 124-126: the lookup returns a place.
GeocodeFound ==
    /\ pc = "geocode"
    /\ \E c \in GeocodedCoordinates :
        /\ latitude' = Some(c[1])
        /\ longitude' = Some(c[2])
    /\ geo' = "found"
    /\ pc' = "summary"
    /\ UNCHANGED <<inputVars, warnings, clfVars, outVars, earlier>>

\* Lines 124-128: the lookup returns nothing.
GeocodeNotFound ==
    /\ pc = "geocode"
    /\ geo' = "notfound"
    /\ warnings' = Append(warnings, NotFoundWarning)
    /\ pc' = "summary"
    /\ UNCHANGED <<inputVars, latitude, longitude, clfVars, outVars, earlier>>

\* As GeocodeError, without the handler of lines 129-130: the run ends.
GeocodeErrorUncaught ==
    /\ pc = "geocode"
    /\ geo' = "error"
    /\ pc' = "crashed"
    /\ UNCHANGED <<inputVars, latitude, longitude, warnings, clfVars, outVars,
                   earlier>>

\* Lines 124, 129-130: the lookup raises and the handler catches it.
GeocodeError ==
    /\ pc = "geocode"
    /\ geo' = "error"
    /\ warnings' = Append(warnings, GeocodingErrorWarning)
    /\ pc' = "summary"
    /\ UNCHANGED <<inputVars, latitude, longitude, clfVars, outVars, earlier>>

\* Lines 131-133: Latitude/Longitude mode; the two number boxes return the pair.
EnterLatLon ==
    /\ pc = "location"
    /\ location_mode = "Latitude/Longitude"
    /\ \E c \in EnteredCoordinates :
        /\ latitude' = Some(c[1])
        /\ longitude' = Some(c[2])
    /\ pc' = "summary"
    /\ UNCHANGED <<inputVars, geo, warnings, clfVars, outVars, earlier>>

\* ------------------------------------------------------------ submission
\* Lines 136-157: the record is assembled, the summary shown, the button read.
Summary ==
    /\ pc = "summary"
    /\ pc' = IF predict_btn THEN "load" ELSE "done"
    /\ UNCHANGED <<inputVars, locVars, clfVars, outVars, earlier>>

\* Line 159: joblib.load returns the artifact; it may or may not have the
\* predict_proba attribute.
LoadModel ==
    /\ pc = "load"
    /\ \E b \in BOOLEAN : clf' = Some([has_proba |-> b])
    /\ pc' = "predict"
    /\ UNCHANGED <<inputVars, locVars, prediction, proba, confidence, failure,
                   outVars, earlier>>

\* Line 159: joblib.load raises; nothing catches it and the run ends.
LoadFails ==
    /\ pc = "load"
    /\ failure' = "load"
    /\ pc' = "crashed"
    /\ UNCHANGED <<inputVars, locVars, clf, prediction, proba, confidence,
                   outVars, earlier>>

\* Lines 160-161: clf.predict returns a label; confidence = None.
Predict ==
    /\ pc = "predict"
    /\ \E p \in {0, 1} : prediction' = Some(p)
    /\ confidence' = None
    /\ pc' = "proba"
    /\ UNCHANGED <<inputVars, locVars, clf, proba, failure, outVars, earlier>>

\* Line 160: clf.predict raises.
PredictFails ==
    /\ pc = "predict"
    /\ failure' = "predict"
    /\ pc' = "crashed"
    /\ UNCHANGED <<inputVars, locVars, clf, prediction, proba, confidence,
                   outVars, earlier>>

\* As MaxOf, taking the probability of class 1 instead of the maximum.
ProbaOfPositive(d) == d[2]

\* Line 164: np.max of the probability row.
MaxOf(d) == IF d[1] >= d[2] THEN d[1] ELSE d[2]

\* Line 162, the test failing: the classifier has no predict_proba.
NoProba ==
    /\ pc = "proba"
    /\ ~clf[1].has_proba
    /\ pc' = "tips"
    /\ UNCHANGED <<inputVars, locVars, clfVars, outVars, earlier>>

\* Lines 162-164: predict_proba returns a distribution.
PredictProba ==
    /\ pc = "proba"
    /\ clf[1].has_proba
    /\ \E d \in Distributions :
        /\ proba' = Some(d)
        /\ confidence' = Some(MaxOf(d))
    /\ pc' = "tips"
    /\ UNCHANGED <<inputVars, locVars, clf, prediction, failure, outVars, earlier>>

\* As PredictProbaFails, with the exception swallowed and the run going on
\* without a confidence.
PredictProbaFailsCaught ==
    /\ pc = "proba"
    /\ clf[1].has_proba
    /\ failure' = "predict_proba"
    /\ pc' = "tips"
    /\ UNCHANGED <<inputVars, locVars, clf, prediction, proba, confidence,
                   outVars, earlier>>

\* Line 163: predict_proba raises.
PredictProbaFails ==
    /\ pc = "proba"
    /\ clf[1].has_proba
    /\ failure' = "predict_proba"
    /\ pc' = "crashed"
    /\ UNCHANGED <<inputVars, locVars, clf, prediction, proba, confidence,
                   outVars, earlier>>

\* ------------------------------------------------------------ tips
\* As NewTips, with the list kept from an earlier submission instead of
\* being created anew.
StaleTips == IF earlier = None THEN <<>> ELSE earlier[1].result.tips

\* Line 166: tips = [].
NewTips == <<>>

\* As HbRule, with <= for <.
HbRuleInclusive(t) == IF hb <= Float(HbLimit) THEN Append(t, IronTip) ELSE t

\* Lines 168-169.
HbRule(t) == IF hb < Float(HbLimit) THEN Append(t, IronTip) ELSE t

\* As GreenRule, written as the elif of the hemoglobin rule.
GreenRuleElif(t) ==
    IF hb < Float(HbLimit) THEN t
    ELSE IF green_pixel > Float(GreenLimit) THEN Append(t, HydrationTip) ELSE t

\* As GreenRule, putting the tip at the head of the list.
GreenRuleFront(t) ==
    IF green_pixel > Float(GreenLimit) THEN <<HydrationTip>> \o t ELSE t

\* Lines 170-171.
GreenRule(t) ==
    IF green_pixel > Float(GreenLimit) THEN Append(t, HydrationTip) ELSE t

\* As LabelRule, with the else lost: the wellness tips follow for both labels.
LabelRuleNoElse(t) ==
    LET u == IF prediction = Some(1)
             THEN Append(Append(t, DoctorTip), CheckupsTip)
             ELSE t
    IN  Append(Append(Append(Append(u, DietTip), ExerciseTip), SleepTip),
               HealthCheckupsTip)

\* Lines 172-174 and 176-180: the tips of the label.
LabelRule(t) ==
    IF prediction = Some(1)
    THEN Append(Append(t, DoctorTip), CheckupsTip)
    ELSE Append(Append(Append(Append(t, DietTip), ExerciseTip), SleepTip),
                HealthCheckupsTip)

\* Lines 167, 175 and 181: the link of the label.
LearnMoreOf == IF prediction = Some(1) THEN WhoLink ELSE MayoLink

\* Lines 166-181.
BuildTips ==
    /\ pc = "tips"
    /\ tips' = LabelRule(GreenRule(HbRule(NewTips)))
    /\ learn_more' = LearnMoreOf
    /\ pc' = "render"
    /\ UNCHANGED <<inputVars, locVars, clfVars, feedback, tips_html, report,
                   download, map_df, earlier>>

\* ------------------------------------------------------------ rendering
\* The label text of lines 184, 189 and 204.
LabelName == IF prediction = Some(1) THEN "Anaemic" ELSE "Not Anaemic"

\* As FloatStr, formatting the integer part only.
FloatStrTruncated(v) == <<v \div 10, 0>>

\* str() of a float input with one decimal digit: the integer part and the
\* digit after the point ("45.0" is <<45, 0>>).
FloatStr(v) == <<v \div 10, v % 10>>

\* The value a printed number stands for, in the fixed-point representation.
ReadNumber(n) == n[1] * 10 + n[2]

\* f'{confidence*100:.1f}' of a probability in thousandths ("82.0" is <<82, 0>>).
Percent1f(c) == <<(c * 100) \div 1000, ((c * 100) \div 100) % 10>>

\* Lines 185-186 and 190-191: the confidence shown under the label.
ShownConfidence ==
    IF confidence # None THEN Some(Percent1f(confidence[1])) ELSE None

\* Lines 183-194: the label, the confidence, the tip section.
Render ==
    /\ pc = "render"
    /\ feedback' = Some([label |-> LabelName, conf |-> ShownConfidence])
    /\ tips_html' = Some([items |-> tips, link |-> learn_more])
    /\ pc' = "report"
    /\ UNCHANGED <<inputVars, locVars, clfVars, tips, learn_more, report,
                   download, map_df, earlier>>

\* ------------------------------------------------------------ report
\* A line of the report: its key (the text before ": ", "-" for a tip line,
\* "" for a line without key), its text and its number.
TextLine(t) == [key |-> "", text |-> t, num |-> <<>>]
FieldLine(k, t) == [key |-> k, text |-> t, num |-> <<>>]
NumberLine(k, n, unit) == [key |-> k, text |-> unit, num |-> n]

\* Lines 199-203.
FeatureLines ==
    << FieldLine("Sex", sex),
       NumberLine("%Red Pixel", FloatStr(red_pixel), ""),
       NumberLine("%Green pixel", FloatStr(green_pixel), ""),
       NumberLine("%Blue pixel", FloatStr(blue_pixel), ""),
       NumberLine("Hemoglobin (Hb)", FloatStr(hb), "") >>

\* Lines 205-206.
ConfidenceLines ==
    IF confidence # None
    THEN << NumberLine("Confidence", Percent1f(confidence[1]), "%") >>
    ELSE << >>

\* Lines 208-209.
TipLines == [i \in 1 .. Len(tips) |-> FieldLine("-", tips[i])]

\* Lines 196-210.
ReportLines ==
    << TextLine("Anaemia Prediction Report"),
       TextLine("========================") >>
    \o FeatureLines
    \o << FieldLine("Prediction", LabelName) >>
    \o ConfidenceLines
    \o << TextLine(""), TextLine("Health Tips:") >>
    \o TipLines
    \o << TextLine(""), TextLine(learn_more) >>

\* Lines 196-211: the report and its download button.
BuildReport ==
    /\ pc = "report"
    /\ report' = ReportLines
    /\ download' = Some(ReportLines)
    /\ pc' = "map"
    /\ UNCHANGED <<inputVars, locVars, clfVars, tips, learn_more, feedback,
                   tips_html, map_df, earlier>>

\* ------------------------------------------------------------ map
\* As HasCoordinates, testing the truth value of the coordinates instead of
\* comparing with None.
HasCoordinatesTruthy ==
    /\ latitude # None /\ longitude # None
    /\ latitude[1] # 0 /\ longitude[1] # 0

\* Line 213.
HasCoordinates == latitude # None /\ longitude # None

\* Lines 213-219.
ShowMap ==
    /\ pc = "map"
    /\ map_df' = IF HasCoordinates
                 THEN Some(<<latitude[1], longitude[1]>>)
                 ELSE None
    /\ pc' = "done"
    /\ UNCHANGED <<inputVars, locVars, clfVars, tips, learn_more, feedback,
                   tips_html, report, download, earlier>>

Next ==
    \/ Rerun
    \/ ReadWidgets
    \/ EnterLocationText
    \/ GeocodeFound
    \/ GeocodeNotFound
    \/ GeocodeError
    \/ EnterLatLon
    \/ Summary
    \/ LoadModel
    \/ LoadFails
    \/ Predict
    \/ PredictFails
    \/ NoProba
    \/ PredictProba
    \/ PredictProbaFails
    \/ BuildTips
    \/ Render
    \/ BuildReport
    \/ ShowMap

Spec == Init /\ [][Next]_vars

\* ------------------------------------------------------------ properties
Occurrences(t, x) == Cardinality({i \in DOMAIN t : t[i] = x})
Contains(t, x) == \E i \in DOMAIN t : t[i] = x
IsThresholdTip(x) == x \in {IronTip, HydrationTip}
IsTipLine(l) == l.key = "-"
LinesOf(k) == {i \in DOMAIN report : report[i].key = k}
ReportTips ==
    LET l == SelectSeq(report, IsTipLine)
    IN  [i \in DOMAIN l |-> l[i].text]
ShownLabelIs(name) == feedback # None /\ feedback[1].label = name
GeocodingFailed == geo \in {"notfound", "error"}

\* C1: in every completed submission the tip list holds the iron-rich-foods
\* tip once when the hemoglobin is below 12 and not at all when it is 12 or
\* more.
C1_IronTipIffLowHb ==
    Completed =>
        Occurrences(tips, IronTip) = (IF hb < Float(12) THEN 1 ELSE 0)

C1_Witness ==
    /\ Completed
    /\ hb = Float(12)
    /\ ~Contains(tips, IronTip)

\* C2: in every completed submission the tip list holds the hydration tip
\* exactly when the green percentage is above 40, whether or not the
\* iron-rich-foods tip is in the list.
C2_HydrationTipIffHighGreen ==
    Completed => (Contains(tips, HydrationTip) <=> green_pixel > Float(40))

C2_Witness ==
    /\ Completed
    /\ hb < Float(12)
    /\ green_pixel > Float(40)
    /\ Contains(tips, IronTip)
    /\ Contains(tips, HydrationTip)

\* C3: in every completed submission the tips other than the threshold tips
\* and the link are those of the shown label: doctor and checkups with the
\* WHO link for Anaemic, the four wellness tips with the general-health link
\* for Not Anaemic.
C3_LabelTipsAndLink ==
    Completed =>
        LET rest == SelectSeq(tips, LAMBDA x : ~IsThresholdTip(x))
        IN  /\ ShownLabelIs("Anaemic") \/ ShownLabelIs("Not Anaemic")
            /\ ShownLabelIs("Anaemic") =>
                /\ rest = <<DoctorTip, CheckupsTip>>
                /\ learn_more = WhoLink
                /\ tips_html[1].link = WhoLink
            /\ ShownLabelIs("Not Anaemic") =>
                /\ rest = <<DietTip, ExerciseTip, SleepTip, HealthCheckupsTip>>
                /\ learn_more = MayoLink
                /\ tips_html[1].link = MayoLink

C3_Witness ==
    /\ Completed
    /\ ShownLabelIs("Anaemic")
    /\ Len(tips) = 4
    /\ learn_more = WhoLink

\* C4: after a geocoding lookup that raised or found nothing, the run has one
\* warning and no coordinates, it has not ended because of the lookup, and a
\* submission that completes in it has its label, tip list and report, and no
\* map.
C4_GeocodingFailureIsNotFatal ==
    GeocodingFailed =>
        /\ Len(warnings) = 1
        /\ latitude = None /\ longitude = None
        /\ pc # "geocode"
        /\ pc = "crashed" => failure \in {"load", "predict", "predict_proba"}
        /\ pc = "done" /\ ~predict_btn => feedback = None /\ map_df = None
        /\ Completed =>
            /\ feedback # None
            /\ tips_html # None /\ Len(tips_html[1].items) >= 2
            /\ download # None /\ download[1] = report /\ Len(report) > 0
            /\ map_df = None

C4_Witness ==
    /\ geo = "error"
    /\ Completed
    /\ download # None
    /\ map_df = None

\* C5: a run in which loading the classifier, predict or predict_proba raised
\* has ended there, with no label, no tip list, no report and no map.
C5_ClassifierFailureIsFatal ==
    failure # "" =>
        /\ pc = "crashed"
        /\ feedback = None
        /\ tips = <<>> /\ tips_html = None
        /\ report = <<>> /\ download = None
        /\ map_df = None

C5_Witness ==
    /\ failure = "predict_proba"
    /\ pc = "crashed"
    /\ prediction # None
    /\ latitude # None

FeaturesEchoed ==
    /\ \E i \in DOMAIN report :
        LinesOf("Sex") = {i} /\ report[i].text = sex
    /\ \E i \in DOMAIN report :
        LinesOf("%Red Pixel") = {i} /\ ReadNumber(report[i].num) = red_pixel
    /\ \E i \in DOMAIN report :
        LinesOf("%Green pixel") = {i} /\ ReadNumber(report[i].num) = green_pixel
    /\ \E i \in DOMAIN report :
        LinesOf("%Blue pixel") = {i} /\ ReadNumber(report[i].num) = blue_pixel
    /\ \E i \in DOMAIN report :
        LinesOf("Hemoglobin (Hb)") = {i} /\ ReadNumber(report[i].num) = hb
    /\ \E i \in DOMAIN report :
        /\ LinesOf("Prediction") = {i}
        /\ report[i].text = (IF prediction = Some(1) THEN "Anaemic"
                             ELSE "Not Anaemic")

ReportKeys ==
    {"", "-", "Sex", "%Red Pixel", "%Green pixel", "%Blue pixel",
     "Hemoglobin (Hb)", "Prediction", "Confidence"}
LocationSupplied == location_text # "" \/ location_mode = "Latitude/Longitude"
LocationLines == {i \in DOMAIN report : report[i].key \notin ReportKeys}

\* C6, as stated: the report of a completed submission echoes the sex, the
\* three percentages, the hemoglobin and the label, and the location when one
\* was supplied.
C6_ReportEchoesEveryInput ==
    Completed =>
        /\ FeaturesEchoed
        /\ LocationSupplied => LocationLines # {}

\* C6, amended: the report of a completed submission echoes the sex, the three
\* percentages, the hemoglobin and the label, each on one line with the value
\* entered; it has no line for the location.
C6_ReportEchoesFeatures ==
    Completed => FeaturesEchoed /\ LocationLines = {}

C6_Witness ==
    /\ Completed
    /\ location_mode = "Latitude/Longitude"
    /\ hb = Float(12) + 1
    /\ green_pixel = Float(40) - 1
    /\ FeaturesEchoed

Rank(x) == IF x = IronTip THEN 1 ELSE IF x = HydrationTip THEN 2 ELSE 3

\* C7: in every completed submission the iron-rich-foods tip precedes the
\* hydration tip and both precede the tips of the label; the tip lines of the
\* report are the rendered tips in the same order.
C7_TipOrder ==
    Completed =>
        /\ \A i, j \in DOMAIN tips :
            i < j => /\ Rank(tips[i]) <= Rank(tips[j])
                     /\ Rank(tips[i]) < 3 => Rank(tips[i]) < Rank(tips[j])
        /\ tips_html[1].items = tips
        /\ ReportTips = tips_html[1].items

C7_Witness ==
    /\ Completed
    /\ Len(tips) = 6
    /\ tips[1] = IronTip
    /\ tips[2] = HydrationTip
    /\ ReportTips = tips

\* C8: in every completed submission there is a confidence exactly when the
\* classifier has predict_proba; it is then the largest of the returned
\* probabilities; the report has a Confidence line, and the page a confidence
\* under the label, exactly when there is a confidence.
C8_ConfidenceIffProba ==
    Completed =>
        /\ confidence # None <=> clf[1].has_proba
        /\ clf[1].has_proba =>
            /\ \A k \in DOMAIN proba[1] : confidence[1] >= proba[1][k]
            /\ \E k \in DOMAIN proba[1] : confidence[1] = proba[1][k]
        /\ LinesOf("Confidence") # {} <=> confidence # None
        /\ feedback[1].conf # None <=> confidence # None

C8_Witness ==
    /\ Completed
    /\ ShownLabelIs("Not Anaemic")
    /\ clf[1].has_proba
    /\ proba[1][1] > proba[1][2]
    /\ Cardinality(LinesOf("Confidence")) = 1

\* C9: in Latitude/Longitude mode the lookup is not made and nothing is
\* warned; the entered pair, (0, 0) included, is the run's coordinates, and a
\* completed submission shows it on the map.
C9_LatLonModeSkipsGeocoding ==
    location_mode = "Latitude/Longitude" /\ pc \notin {"widgets", "location"} =>
        /\ geo = "none" /\ warnings = <<>>
        /\ pc # "geocode"
        /\ latitude # None /\ longitude # None
        /\ <<latitude[1], longitude[1]>> \in EnteredCoordinates
        /\ Completed => map_df = Some(<<latitude[1], longitude[1]>>)

C9_Witness ==
    /\ Completed
    /\ location_mode = "Latitude/Longitude"
    /\ latitude = Some(0) /\ longitude = Some(0)
    /\ map_df = Some(<<0, 0>>)

\* C10: a completed submission with the inputs and the classifier output of
\* an earlier completed submission of the session has the same label,
\* confidence, tip list, link and report, whatever was submitted in between.
C10_SubmissionsIndependent ==
    Completed /\ earlier # None /\ earlier[1].key = Key =>
        earlier[1].result = Result

C10_Witness ==
    /\ Completed
    /\ earlier # None
    /\ earlier[1].key = Key
    /\ Len(tips) = 4
====
